---- MODULE Spec2Model ----
(***************************************************************************)
(* coolerWidget core: TemperatureHistory and ThermalMonitoringService      *)
(* (src/src/coolerwidget/core/thermal_service.py).                         *)
(*                                                                         *)
(* Seven specifications over one set of variables:                         *)
(*   SpecHistory  one TemperatureHistory object, used on its own;          *)
(*   SpecLife     the service's lifecycle: caller threads running          *)
(*                start_monitoring / stop_monitoring and the sampling-loop *)
(*                threads they launch;                                     *)
(*   SpecDrain    process_pending_callbacks on queues filled directly, as  *)
(*                tests/test_thermal_service.py does, with callback        *)
(*                registration;                                            *)
(*   SpecStopFair the lifecycle with fewer threads, under fair scheduling; *)
(*   SpecLoop     one caller starting and stopping the service, the        *)
(*                Sensor Source reporting one or two sensors, or failing;  *)
(*   SpecRecord   _record_readings and the two history reads, called       *)
(*                directly;                                                *)
(*   Spec         the delivery path: the service started, its sampling     *)
(*                loop, callback registration and the consumer running     *)
(*                process_pending_callbacks.                               *)
(***************************************************************************)
EXTENDS Integers, Sequences, FiniteSets, TLC

\* ------------------------------------------------------------------ bounds
\* capacities (max_size) tried for a stand-alone TemperatureHistory: 0..MaxCap
MaxCap == 2
\* add_reading calls on the stand-alone TemperatureHistory
MaxAppends == 3
\* the clock runs over 0..MaxTime (ticks)
MaxTime == 3
\* clock ticks per minute (get_readings_for_timeframe takes minutes)
TicksPerMinute == 2
\* get_readings_for_timeframe is asked for 0..MaxMinutes minutes
MaxMinutes == 1
\* sampling-loop threads launched by start_monitoring in SpecLife
MaxThreads == 3
\* sampling-loop threads launched by start_monitoring in SpecStopFair
MaxStopThreads == 2
\* interval waits that end by timeout in SpecLife
MaxTimeouts == 1
\* interval waits that end by timeout in Spec
MaxLoopTimeouts == 1
\* register_reading_callback / register_error_callback calls, each, in Spec
MaxListeners == 1
\* register_reading_callback / register_error_callback calls, each, in SpecDrain
MaxCallbacks == 2
\* items put on the pending queues in SpecDrain
MaxPuts == 3
\* sampling-loop threads launched by start_monitoring in SpecLoop
MaxRestarts == 2
\* readings in a batch handed to _record_readings in SpecRecord
MaxBatch == 2
\* _record_readings calls in SpecRecord
MaxRecords == 2

\* TemperatureHistory.max_size default, used for the service's histories
DefaultMaxSize == 1000

\* ------------------------------------------------------------- value sets
Min(a, b) == IF a < b THEN a ELSE b
Max(a, b) == IF a < b THEN b ELSE a

\* sensor keys (SensorReading.name)
Keys == {"k1", "k2"}
\* names of the thread objects start_monitoring creates, in creation order
ThreadNames == <<"t1", "t2", "t3", "t4", "t5", "t6">>
ThreadIds == {ThreadNames[i] : i \in 1..Len(ThreadNames)}
\* threads that call start_monitoring / stop_monitoring
LifeCallers == {"a", "b"}
\* the one lifecycle caller of Spec
MainCaller == "a"
\* the thread that calls process_pending_callbacks
Consumer == "ui"
\* callables a client registers
CallbackFns == {"f", "g"}
None == "None"

\* SensorReading, reduced to the fields the service reads
SensorReading(name, value, timestamp) ==
    [name |-> name, value |-> value, timestamp |-> timestamp]

\* ------------------------------------------------------ TemperatureHistory
\* Python's normalisation of the stop index of the slice s[:stop], len(s) = n
PySliceStop(stop, n) ==
    IF stop < 0 THEN Max(0, n + stop) ELSE Min(stop, n)

\* del s[:stop]
DelPrefix(s, stop) ==
    SubSeq(s, PySliceStop(stop, Len(s)) + 1, Len(s))

TemperatureHistory(readings, max_size) ==
    [readings |-> readings, max_size |-> max_size]

\* TemperatureHistory.add_reading
add_reading(h, reading) ==
    LET appended == Append(h.readings, reading)
    IN  [h EXCEPT !.readings =
            IF Len(appended) > h.max_size
            THEN DelPrefix(appended, 0 - h.max_size)
            ELSE appended]

\* mutant of get_readings_for_timeframe: strict comparison
get_readings_for_timeframe_strict(h, minutes, clock) ==
    LET timeframe == clock - minutes * TicksPerMinute
    IN  SelectSeq(h.readings, LAMBDA reading : reading.timestamp > timeframe)

\* TemperatureHistory.get_readings_for_timeframe; clock is datetime.now()
get_readings_for_timeframe(h, minutes, clock) ==
    LET timeframe == clock - minutes * TicksPerMinute
    IN  SelectSeq(h.readings, LAMBDA reading : reading.timestamp >= timeframe)

\* object identity of the list a TemperatureHistory holds in self.readings
ReadingsObj == "self.readings"
\* object identity of a list built by a list comprehension
NewListObj == "new list"

\* the list comprehension of get_readings_for_timeframe builds a new list
WindowResult(h, minutes, clock) ==
    [obj |-> NewListObj, items |-> get_readings_for_timeframe(h, minutes, clock)]

NoWindow == [called |-> FALSE]

\* object identity of the list built by list(...)
CopyObj == "list(...)"

\* list(x): a new list with the items of x
PyList(x) == [obj |-> CopyObj, items |-> x.items]

NoRecord == [called |-> FALSE]
NoSnapshot == [called |-> FALSE]

\* ---------------------------------------------------------------- state
VARIABLES
    \* clock: datetime.now(), in ticks
    now,
    \* SpecHistory: a stand-alone TemperatureHistory, the readings handed to
    \* add_reading so far (in call order), the last timeframe query
    th, inserted, window,
    \* SpecRecord: the last _record_readings call made directly (batch, history
    \* dict before and after), the last get_historical_readings /
    \* get_all_historical_readings call (arguments, clock, history dict before
    \* and after, the list objects returned)
    recorded, snapshot,
    \* ThermalMonitoringService fields
    state_lock, stop_event, thread, is_running, history,
    reading_callbacks, error_callbacks, pending_readings, pending_errors,
    \* sampling-loop threads: position, local `readings` / `exc`
    tpc, tlocal,
    \* thread objects created so far, interval waits timed out so far,
    \* batches and errors made so far (by the Sensor Source, or by a test)
    launched, timeouts, polls,
    \* lifecycle callers: position, stop_monitoring's local `thread`
    cpc, cthread,
    \* per running stop_monitoring call: the loop threads launched by
    \* start_monitoring calls that had returned when it began
    stopPre,
    \* the last start_monitoring call that returned, while no
    \* stop_monitoring call has been in progress since it began
    lastStart,
    \* a stop_monitoring call has returned and no start_monitoring call was
    \* made since
    stopped,
    \* consumer inside process_pending_callbacks: position, popped item,
    \* index into the callback list being iterated
    dpc, dcur, dix,
    \* callback invocations of the process_pending_callbacks call in progress
    calls,
    \* observations about that call: queues and registrations at entry, items
    \* popped, whether no sampling loop pushed since entry (kept after the
    \* return), whether the call follows a returned call since whose entry no
    \* loop pushed, whether it raised instead of returning
    drain

histVars == <<th, inserted, window, recorded, snapshot>>
svcVars == <<state_lock, stop_event, thread, is_running, history,
             reading_callbacks, error_callbacks, pending_readings, pending_errors>>
loopVars == <<tpc, tlocal, launched, timeouts, polls>>
callerVars == <<cpc, cthread, stopPre, lastStart, stopped>>
drainVars == <<dpc, dcur, dix, calls, drain>>
vars == <<now, histVars, svcVars, loopVars, callerVars, drainVars>>

\* --------------------------------------------------------------- Init
NoDrain ==
    [entryReadings |-> <<>>, entryErrors |-> <<>>, entryNr |-> 0, entryNe |-> 0,
     poppedReadings |-> <<>>, poppedErrors |-> <<>>,
     quiet |-> FALSE, second |-> FALSE, raised |-> FALSE, returned |-> FALSE]

\* a sampling-loop thread outside the try block: no `readings`, no `exc`
NoLocal == [bound |-> FALSE]

\* inRow: start_monitoring calls that returned in a row (capped at 2);
\* aliveBefore: a loop thread was alive when the call was made; changed: the
\* call changed _thread, the stop signal or is_running; liveAfter: loop
\* threads alive when it returned
NoStart ==
    [caller |-> None, inRow |-> 0, aliveBefore |-> FALSE, changed |-> FALSE,
     liveAfter |-> 0]

\* ThermalMonitoringService.__init__, no thread running any method
InitService ==
    /\ state_lock = None
    /\ stop_event = FALSE
    /\ thread = None
    /\ is_running = FALSE
    /\ history = <<>>
    /\ reading_callbacks = <<>>
    /\ error_callbacks = <<>>
    /\ pending_readings = <<>>
    /\ pending_errors = <<>>
    /\ tpc = [t \in ThreadIds |-> "unborn"]
    /\ tlocal = [t \in ThreadIds |-> NoLocal]
    /\ launched = 0
    /\ timeouts = 0
    /\ polls = 0
    /\ cpc = [c \in LifeCallers |-> "idle"]
    /\ cthread = [c \in LifeCallers |-> None]
    /\ stopPre = [c \in LifeCallers |-> {}]
    /\ lastStart = NoStart
    /\ stopped = FALSE
    /\ dpc = "idle"
    /\ dcur = None
    /\ dix = 0
    /\ calls = <<>>
    /\ drain = NoDrain

\* no stand-alone TemperatureHistory in use
InitNoHistory ==
    /\ th = TemperatureHistory(<<>>, DefaultMaxSize)
    /\ inserted = <<>>
    /\ window = NoWindow
    /\ recorded = NoRecord
    /\ snapshot = NoSnapshot

\* TemperatureHistory([], max_size) for a capacity 0..MaxCap
InitHistory ==
    /\ now = 0
    /\ \E c \in 0..MaxCap : th = TemperatureHistory(<<>>, c)
    /\ inserted = <<>>
    /\ window = NoWindow
    /\ recorded = NoRecord
    /\ snapshot = NoSnapshot
    /\ InitService

\* ------------------------------------------- SpecHistory: the actions
\* the clock advances
Tick ==
    /\ now < MaxTime
    /\ now' = now + 1
    /\ UNCHANGED <<histVars, svcVars, loopVars, callerVars, drainVars>>

\* th.add_reading(reading), the reading captured at some time up to now
AddReading ==
    /\ Len(inserted) < MaxAppends
    /\ \E ts \in 0..now :
         LET reading == SensorReading("k1", Len(inserted) + 1, ts)
         IN  /\ th' = add_reading(th, reading)
             /\ inserted' = Append(inserted, reading)
    /\ UNCHANGED <<now, window, recorded, snapshot, svcVars, loopVars,
                   callerVars, drainVars>>

\* th.get_readings_for_timeframe(minutes)
GetReadingsForTimeframe ==
    /\ \E minutes \in 0..MaxMinutes :
         window' = [called |-> TRUE, minutes |-> minutes, at |-> now,
                    before |-> th.readings,
                    result |-> WindowResult(th, minutes, now),
                    after |-> th.readings]
    /\ UNCHANGED <<now, th, inserted, recorded, snapshot, svcVars, loopVars,
                   callerVars, drainVars>>

NextHistory ==
    \/ Tick
    \/ AddReading
    \/ GetReadingsForTimeframe

SpecHistory == InitHistory /\ [][NextHistory]_vars

\* ------------------------------------------ ThermalMonitoringService
\* Thread.is_alive(): from start() until run() has returned
IsAlive(t) == tpc[t] \notin {"unborn", "dead"}

\* the sampling-loop threads that are alive
AliveLoops == {t \in ThreadIds : IsAlive(t)}

\* the thread objects created so far
Launched == {ThreadNames[i] : i \in 1..launched}

\* an exception object
Exc(kind, origin, seq) == [kind |-> kind, origin |-> origin, seq |-> seq]

\* mutant of RecordOne: the dict is rebuilt with the reading's key only
RecordOneAlone(hist, reading) ==
    LET key == reading.name
        h0 == IF key \in DOMAIN hist
              THEN hist[key]
              ELSE TemperatureHistory(<<>>, DefaultMaxSize)
    IN  [k \in {key} |-> add_reading(h0, reading)]

\* the body of the for loop of _record_readings, on the dict `hist`
RecordOne(hist, reading) ==
    LET key == reading.name
        h0 == IF key \in DOMAIN hist
              THEN hist[key]
              ELSE TemperatureHistory(<<>>, DefaultMaxSize)
        h1 == add_reading(h0, reading)
    IN  [k \in DOMAIN hist \cup {key} |-> IF k = key THEN h1 ELSE hist[k]]

RECURSIVE record_readings(_, _)
\* _record_readings(readings), on the dict `hist`
record_readings(hist, readings) ==
    IF readings = <<>>
    THEN hist
    ELSE record_readings(RecordOne(hist, Head(readings)), Tail(readings))

\* what HardwareMonitor.get_current_readings can do at poll number n, the
\* clock at `clock`: return a list of readings taken now, one per sensor of
\* one of the `shapes`, or (canFail) raise RuntimeError
SourceOutcomes(shapes, canFail, n, clock) ==
    {[ok |-> TRUE,
      readings |-> [i \in 1..Len(s) |-> SensorReading(s[i], n, clock)]] : s \in shapes}
    \cup {[ok |-> FALSE, exc |-> Exc("RuntimeError", "source", n)] : x \in {1} \cap canFail}

\* Every `with self._state_lock:` block of the service is one step, taken when
\* the lock is free: no block waits or calls out while it holds the lock, so
\* state_lock is free again when the step is over.

\* start_monitoring line 56, negated: no live thread is referenced
StartMustLaunch == ~(thread # None /\ IsAlive(thread))

\* start_monitoring (lines 55-62)
start_monitoring(c, maxThreads) ==
    /\ cpc[c] = "idle"
    /\ launched < maxThreads
    /\ state_lock = None
    /\ IF StartMustLaunch
       THEN LET new == ThreadNames[launched + 1]
            IN  /\ stop_event' = FALSE
                /\ is_running' = TRUE
                /\ thread' = new
                /\ tpc' = [tpc EXCEPT ![new] = "check"]
                /\ launched' = launched + 1
       ELSE UNCHANGED <<stop_event, is_running, thread, tpc, launched>>
    /\ lastStart' =
         IF \E d \in LifeCallers : cpc[d] = "join"
         THEN NoStart
         ELSE [caller |-> c,
               inRow |-> Min(lastStart.inRow + 1, 2),
               aliveBefore |-> AliveLoops # {},
               changed |-> <<thread, stop_event, is_running>>'
                             # <<thread, stop_event, is_running>>,
               liveAfter |-> Cardinality({t \in ThreadIds :
                                            tpc'[t] \notin {"unborn", "dead"}})]
    /\ stopped' = FALSE
    /\ UNCHANGED <<now, histVars, state_lock, history, reading_callbacks,
                   error_callbacks, pending_readings, pending_errors, tlocal,
                   timeouts, polls, cpc, cthread, stopPre, drainVars>>

\* stop_monitoring, lines 66-69
StopSignal(c) ==
    /\ cpc[c] = "idle"
    /\ state_lock = None
    /\ is_running' = FALSE
    /\ stop_event' = TRUE
    /\ cthread' = [cthread EXCEPT ![c] = thread]
    /\ cpc' = [cpc EXCEPT ![c] = "join"]
    /\ stopPre' = [stopPre EXCEPT ![c] = Launched]
    /\ lastStart' = NoStart
    /\ UNCHANGED <<now, histVars, state_lock, thread, history, reading_callbacks,
                   error_callbacks, pending_readings, pending_errors, loopVars,
                   stopped, drainVars>>

\* `if thread: thread.join()` (lines 71-72) is over
JoinReturns(t) == IF t = None THEN TRUE ELSE ~IsAlive(t)

\* stop_monitoring, lines 71-75: the join is over, _thread is cleared under
\* the lock, the call returns
StopJoinClear(c) ==
    /\ cpc[c] = "join"
    /\ JoinReturns(cthread[c])
    /\ state_lock = None
    /\ thread' = None
    /\ cpc' = [cpc EXCEPT ![c] = "idle"]
    /\ cthread' = [cthread EXCEPT ![c] = None]
    /\ stopped' = TRUE
    /\ UNCHANGED <<now, histVars, state_lock, stop_event, is_running, history,
                   reading_callbacks, error_callbacks, pending_readings,
                   pending_errors, loopVars, stopPre, lastStart, drainVars>>

\* ------------------------------------------------- _monitor_loop, thread t
\* line 79: while not self._stop_event.is_set()
LoopCheck(t) ==
    /\ tpc[t] = "check"
    /\ tpc' = [tpc EXCEPT ![t] = IF stop_event THEN "exit" ELSE "poll"]
    /\ UNCHANGED <<now, histVars, svcVars, tlocal, launched, timeouts, polls,
                   callerVars, drainVars>>

\* line 81: self.monitor.get_current_readings() returns or raises
LoopPoll(t, shapes, canFail) ==
    /\ tpc[t] = "poll"
    /\ \E out \in SourceOutcomes(shapes, canFail, polls + 1, now) :
         /\ tlocal' = [tlocal EXCEPT ![t] = out]
         /\ tpc' = [tpc EXCEPT ![t] = IF out.ok THEN "record" ELSE "except"]
    /\ polls' = polls + 1
    /\ now' = now + 1
    /\ UNCHANGED <<histVars, svcVars, launched, timeouts, callerVars, drainVars>>

\* mutant of LoopRecord: the batch is not recorded before it is pushed
LoopRecordSkipped(t) ==
    /\ tpc[t] = "record"
    /\ tpc' = [tpc EXCEPT ![t] = "put"]
    /\ UNCHANGED <<now, histVars, svcVars, tlocal, launched, timeouts, polls,
                   callerVars, drainVars>>

\* line 82: self._record_readings(readings)  (lines 94-101)
LoopRecord(t) ==
    /\ tpc[t] = "record"
    /\ state_lock = None
    /\ history' = record_readings(history, tlocal[t].readings)
    /\ tpc' = [tpc EXCEPT ![t] = "put"]
    /\ UNCHANGED <<now, histVars, state_lock, stop_event, thread, is_running,
                   reading_callbacks, error_callbacks, pending_readings,
                   pending_errors, tlocal, launched, timeouts, polls,
                   callerVars, drainVars>>

\* mutant of LoopPut: the sampling thread calls the reading callbacks itself
LoopPutInvoking(t) ==
    /\ tpc[t] = "put"
    /\ calls' = calls \o [i \in 1..Len(reading_callbacks) |->
                            [kind |-> "reading", pos |-> i,
                             fn |-> reading_callbacks[i],
                             arg |-> tlocal[t].readings, raised |-> FALSE,
                             thread |-> t, within |-> "_monitor_loop"]]
    /\ tlocal' = [tlocal EXCEPT ![t] = NoLocal]
    /\ tpc' = [tpc EXCEPT ![t] = "wait"]
    /\ UNCHANGED <<now, histVars, svcVars, launched, timeouts, polls,
                   callerVars, dpc, dcur, dix, drain>>

\* line 83: self._pending_readings.put(readings)
LoopPut(t) ==
    /\ tpc[t] = "put"
    /\ pending_readings' = Append(pending_readings, tlocal[t].readings)
    /\ tlocal' = [tlocal EXCEPT ![t] = NoLocal]
    /\ tpc' = [tpc EXCEPT ![t] = "wait"]
    /\ drain' = [drain EXCEPT !.quiet = FALSE]
    /\ UNCHANGED <<now, histVars, state_lock, stop_event, thread, is_running,
                   history, reading_callbacks, error_callbacks, pending_errors,
                   launched, timeouts, polls, callerVars, dpc, dcur, dix, calls>>

\* mutant of LoopExcept: no except clause, the RuntimeError ends run()
LoopExceptCrashes(t) ==
    /\ tpc[t] = "except"
    /\ tlocal' = [tlocal EXCEPT ![t] = NoLocal]
    /\ tpc' = [tpc EXCEPT ![t] = "dead"]
    /\ UNCHANGED <<now, histVars, svcVars, launched, timeouts, polls,
                   callerVars, drainVars>>

\* lines 84-85: except RuntimeError as exc: self._pending_errors.put(exc)
LoopExcept(t) ==
    /\ tpc[t] = "except"
    /\ pending_errors' = Append(pending_errors, tlocal[t].exc)
    /\ tlocal' = [tlocal EXCEPT ![t] = NoLocal]
    /\ tpc' = [tpc EXCEPT ![t] = "wait"]
    /\ drain' = [drain EXCEPT !.quiet = FALSE]
    /\ UNCHANGED <<now, histVars, state_lock, stop_event, thread, is_running,
                   history, reading_callbacks, error_callbacks, pending_readings,
                   launched, timeouts, polls, callerVars, dpc, dcur, dix, calls>>

\* line 87: self._stop_event.wait(self.polling_interval) returns because the
\* event is set
LoopWaitSignalled(t) ==
    /\ tpc[t] = "wait"
    /\ stop_event
    /\ tpc' = [tpc EXCEPT ![t] = "check"]
    /\ UNCHANGED <<now, histVars, svcVars, tlocal, launched, timeouts, polls,
                   callerVars, drainVars>>

\* line 87: the wait returns because the interval is over
LoopWaitTimeout(t, maxTimeouts) ==
    /\ tpc[t] = "wait"
    /\ ~stop_event
    /\ timeouts < maxTimeouts
    /\ timeouts' = timeouts + 1
    /\ tpc' = [tpc EXCEPT ![t] = "check"]
    /\ UNCHANGED <<now, histVars, svcVars, tlocal, launched, polls,
                   callerVars, drainVars>>

\* lines 89-90: the loop is left, is_running is cleared under the lock,
\* run() returns
LoopExit(t) ==
    /\ tpc[t] = "exit"
    /\ state_lock = None
    /\ is_running' = FALSE
    /\ tpc' = [tpc EXCEPT ![t] = "dead"]
    /\ UNCHANGED <<now, histVars, state_lock, stop_event, thread, history,
                   reading_callbacks, error_callbacks, pending_readings,
                   pending_errors, tlocal, launched, timeouts, polls,
                   callerVars, drainVars>>

\* ------------------------------------------------------------- SpecLife
InitLife ==
    /\ now = 0
    /\ InitNoHistory
    /\ InitService

\* the Sensor Source of SpecLife: get_current_readings = lambda: []
\* (tests/test_thermal_service.py line 47)
LifeShapes == {<<>>}

NextLife ==
    \/ \E c \in LifeCallers : start_monitoring(c, MaxThreads)
    \/ \E c \in LifeCallers : StopSignal(c)
    \/ \E c \in LifeCallers : StopJoinClear(c)
    \/ \E t \in ThreadIds : LoopCheck(t)
    \/ \E t \in ThreadIds : LoopPoll(t, LifeShapes, {})
    \/ \E t \in ThreadIds : LoopRecord(t)
    \/ \E t \in ThreadIds : LoopPut(t)
    \/ \E t \in ThreadIds : LoopWaitSignalled(t)
    \/ \E t \in ThreadIds : LoopWaitTimeout(t, MaxTimeouts)
    \/ \E t \in ThreadIds : LoopExit(t)

SpecLife == InitLife /\ [][NextLife]_vars

\* the steps of sampling-loop thread t in SpecLife
LoopStepLife(t) ==
    \/ LoopCheck(t)
    \/ LoopPoll(t, LifeShapes, {})
    \/ LoopRecord(t)
    \/ LoopPut(t)
    \/ LoopWaitSignalled(t)
    \/ LoopWaitTimeout(t, MaxTimeouts)
    \/ LoopExit(t)

\* the lifecycle with fewer sampling-loop threads
NextStop ==
    \/ \E c \in LifeCallers : start_monitoring(c, MaxStopThreads)
    \/ \E c \in LifeCallers : StopSignal(c)
    \/ \E c \in LifeCallers : StopJoinClear(c)
    \/ \E t \in ThreadIds : LoopStepLife(t)

\* the lifecycle under fair scheduling: a thread that can take a step takes
\* one in the end, be it a sampling loop (the Sensor Source returns, the lock
\* is granted, the wait ends) or a caller whose join is over; nothing obliges
\* a caller to make another call
SpecStopFair ==
    /\ InitLife
    /\ [][NextStop]_vars
    /\ \A t \in ThreadIds : WF_vars(LoopStepLife(t))
    /\ \A c \in LifeCallers : WF_vars(StopJoinClear(c))

\* ------------------------------------------------------------- SpecLoop
\* one caller thread starts and stops the service; the Sensor Source reports
\* one or two sensors, or fails
InitLoop ==
    /\ now = 0
    /\ InitNoHistory
    /\ InitService

\* the Sensor Source of SpecLoop: one sensor, or two
LoopShapes == {<<"k1">>, <<"k2", "k1">>}

NextLoop ==
    \/ start_monitoring(MainCaller, MaxRestarts)
    \/ StopSignal(MainCaller)
    \/ StopJoinClear(MainCaller)
    \/ \E t \in ThreadIds : LoopCheck(t)
    \/ \E t \in ThreadIds : LoopPoll(t, LoopShapes, {1})
    \/ \E t \in ThreadIds : LoopRecord(t)
    \/ \E t \in ThreadIds : LoopPut(t)
    \/ \E t \in ThreadIds : LoopExcept(t)
    \/ \E t \in ThreadIds : LoopWaitSignalled(t)
    \/ \E t \in ThreadIds : LoopWaitTimeout(t, MaxLoopTimeouts)
    \/ \E t \in ThreadIds : LoopExit(t)

SpecLoop == InitLoop /\ [][NextLoop]_vars

\* ------------------------------------------------------------ SpecRecord
\* the batches handed to _record_readings at call number n, the clock at
\* `clock`: up to MaxBatch readings of any keys, told apart by their values
Batches(n, clock) ==
    UNION {{[i \in 1..len |-> SensorReading(ks[i], n * (MaxBatch + 1) + i, clock)] :
              ks \in [1..len -> Keys]} : len \in 0..MaxBatch}

\* service._record_readings(batch), called directly as
\* tests/test_thermal_service.py line 36 does, with readings taken now; a
\* minute passes before the next call of the service
RecordReadings ==
    /\ polls < MaxRecords
    /\ state_lock = None
    /\ \E batch \in Batches(polls, now) :
         /\ history' = record_readings(history, batch)
         /\ recorded' = [called |-> TRUE, batch |-> batch,
                         before |-> history, after |-> history']
    /\ polls' = polls + 1
    /\ now' = now + TicksPerMinute
    /\ UNCHANGED <<th, inserted, window, snapshot, state_lock, stop_event,
                   thread, is_running, reading_callbacks, error_callbacks,
                   pending_readings, pending_errors, tpc, tlocal, launched,
                   timeouts, callerVars, drainVars>>

\* mutant of get_historical_readings: the lookup creates the History of an
\* unknown key (self.history.setdefault)
get_historical_readings_creating(hist, sensor_name, minutes, clock) ==
    LET h == IF sensor_name \in DOMAIN hist
             THEN hist[sensor_name]
             ELSE TemperatureHistory(<<>>, DefaultMaxSize)
    IN  [history |-> [k \in DOMAIN hist \cup {sensor_name} |->
                        IF k = sensor_name THEN h ELSE hist[k]],
         result |-> PyList(WindowResult(h, minutes, clock))]

\* get_historical_readings(sensor_name, minutes) on the dict `hist`
\* (lines 144-148): the dict afterwards and the list returned
get_historical_readings(hist, sensor_name, minutes, clock) ==
    [history |-> hist,
     result |-> IF sensor_name \notin DOMAIN hist
                THEN [obj |-> NewListObj, items |-> <<>>]
                ELSE PyList(WindowResult(hist[sensor_name], minutes, clock))]

\* get_all_historical_readings(minutes) on the dict `hist` (lines 152-156)
get_all_historical_readings(hist, minutes, clock) ==
    [history |-> hist,
     result |-> [k \in DOMAIN hist |->
                   PyList(WindowResult(hist[k], minutes, clock))]]

\* service.get_historical_readings(sensor_name, minutes)
GetHistoricalReadings ==
    /\ state_lock = None
    /\ \E sensor_name \in Keys, minutes \in 0..MaxMinutes :
         LET out == get_historical_readings(history, sensor_name, minutes, now)
         IN  /\ history' = out.history
             /\ snapshot' = [called |-> TRUE, all |-> FALSE,
                             sensor_name |-> sensor_name, minutes |-> minutes,
                             at |-> now, before |-> history, after |-> history',
                             lists |-> [k \in {sensor_name} |-> out.result]]
    /\ UNCHANGED <<now, th, inserted, window, recorded, state_lock, stop_event,
                   thread, is_running, reading_callbacks, error_callbacks,
                   pending_readings, pending_errors, loopVars, callerVars,
                   drainVars>>

\* service.get_all_historical_readings(minutes)
GetAllHistoricalReadings ==
    /\ state_lock = None
    /\ \E minutes \in 0..MaxMinutes :
         LET out == get_all_historical_readings(history, minutes, now)
         IN  /\ history' = out.history
             /\ snapshot' = [called |-> TRUE, all |-> TRUE,
                             sensor_name |-> None, minutes |-> minutes,
                             at |-> now, before |-> history, after |-> history',
                             lists |-> out.result]
    /\ UNCHANGED <<now, th, inserted, window, recorded, state_lock, stop_event,
                   thread, is_running, reading_callbacks, error_callbacks,
                   pending_readings, pending_errors, loopVars, callerVars,
                   drainVars>>

InitRecord ==
    /\ now = 0
    /\ InitNoHistory
    /\ InitService

NextRecord ==
    \/ RecordReadings
    \/ GetHistoricalReadings
    \/ GetAllHistoricalReadings

SpecRecord == InitRecord /\ [][NextRecord]_vars

\* ------------------------------------------------------- registration
\* register_reading_callback(fn)  (line 132)
RegisterReadingCallback(fn, maxCallbacks) ==
    /\ Len(reading_callbacks) < maxCallbacks
    /\ reading_callbacks' = Append(reading_callbacks, fn)
    /\ UNCHANGED <<now, histVars, state_lock, stop_event, thread, is_running,
                   history, error_callbacks, pending_readings, pending_errors,
                   loopVars, callerVars, drainVars>>

\* register_error_callback(fn)  (line 136)
RegisterErrorCallback(fn, maxCallbacks) ==
    /\ Len(error_callbacks) < maxCallbacks
    /\ error_callbacks' = Append(error_callbacks, fn)
    /\ UNCHANGED <<now, histVars, state_lock, stop_event, thread, is_running,
                   history, reading_callbacks, pending_readings, pending_errors,
                   loopVars, callerVars, drainVars>>

\* ------------------------------------- process_pending_callbacks (consumer)
\* what a registered callable does when called: the callable "f" returns,
\* the callable "g" raises Exception
CallbackOutcome(fn) == IF fn = "g" THEN "raise" ELSE "return"

\* one callback invocation: which list (kind) and position the callable was
\* taken from, its argument, whether it raised, the thread that ran it and
\* the method that thread was in
Invocation(kind, pos, fn, arg, outcome, by, within) ==
    [kind |-> kind, pos |-> pos, fn |-> fn, arg |-> arg,
     raised |-> (outcome = "raise"), thread |-> by, within |-> within]

\* mutant of QueueGet: the newest item is taken
QueueGetNewest(q) ==
    [item |-> q[Len(q)], rest |-> SubSeq(q, 1, Len(q) - 1)]

\* mutant of QueueGet: the item is read and left in the queue
QueueGetKeeping(q) ==
    [item |-> Head(q), rest |-> q]

\* queue.SimpleQueue.get_nowait() on a queue that is not empty
QueueGet(q) ==
    [item |-> Head(q), rest |-> Tail(q)]

\* mutant of ReadingCallbackRaised: the try is around the for loop, so a
\* raising callback ends the iteration over the callbacks
ReadingCallbackRaisedEndsLoop(i) ==
    [next |-> Len(reading_callbacks) + 1, queued |-> TRUE, propagates |-> FALSE]

\* lines 114-115: `except Exception as exc: self._pending_errors.put(exc)`
\* inside the for loop: the error is queued, the next callback is next
ReadingCallbackRaised(i) ==
    [next |-> i + 1, queued |-> TRUE, propagates |-> FALSE]

\* mutant of ErrorCallbackRaised: no try around the error callback
ErrorCallbackRaisedPropagates(i) ==
    [next |-> i + 1, queued |-> FALSE, propagates |-> TRUE]

\* lines 126-128: `except Exception: continue`
ErrorCallbackRaised(i) ==
    [next |-> i + 1, queued |-> FALSE, propagates |-> FALSE]

\* process_pending_callbacks is called
DrainCall ==
    /\ dpc = "idle"
    /\ dpc' = "readings"
    /\ dcur' = None
    /\ dix' = 0
    /\ calls' = <<>>
    /\ drain' = [entryReadings |-> pending_readings,
                 entryErrors |-> pending_errors,
                 entryNr |-> Len(reading_callbacks),
                 entryNe |-> Len(error_callbacks),
                 poppedReadings |-> <<>>, poppedErrors |-> <<>>,
                 quiet |-> TRUE,
                 second |-> (drain.returned /\ drain.quiet),
                 raised |-> FALSE, returned |-> FALSE]
    /\ UNCHANGED <<now, histVars, svcVars, loopVars, callerVars>>

\* lines 105-109: get_nowait() on _pending_readings; Empty ends the loop
DrainGetReading ==
    /\ dpc = "readings"
    /\ IF pending_readings = <<>>
       THEN /\ dpc' = "errors"
            /\ UNCHANGED <<pending_readings, dcur, dix, drain>>
       ELSE LET got == QueueGet(pending_readings)
            IN  /\ pending_readings' = got.rest
                /\ dcur' = got.item
                /\ dix' = 1
                /\ dpc' = "reading_callbacks"
                /\ drain' = [drain EXCEPT
                               !.poppedReadings = Append(@, got.item)]
    /\ UNCHANGED <<now, histVars, state_lock, stop_event, thread, is_running,
                   history, reading_callbacks, error_callbacks, pending_errors,
                   loopVars, callerVars, calls>>

\* line 111: the for loop over self.reading_callbacks is over
DrainReadingCallbacksDone ==
    /\ dpc = "reading_callbacks"
    /\ dix > Len(reading_callbacks)
    /\ dpc' = "readings"
    /\ dcur' = None
    /\ dix' = 0
    /\ UNCHANGED <<now, histVars, svcVars, loopVars, callerVars, calls, drain>>

\* lines 111-115: the next reading callback is called with the batch
DrainReadingCallback ==
    /\ dpc = "reading_callbacks"
    /\ dix <= Len(reading_callbacks)
    /\ LET outcome == CallbackOutcome(reading_callbacks[dix])
           inv == Invocation("reading", dix, reading_callbacks[dix], dcur, outcome,
                             Consumer, "process_pending_callbacks")
           exc == Exc("Exception", "reading_callback", Len(calls) + 1)
           h == ReadingCallbackRaised(dix)
       IN  /\ calls' = Append(calls, inv)
           /\ IF outcome = "raise"
              THEN /\ pending_errors' = IF h.queued
                                        THEN Append(pending_errors, exc)
                                        ELSE pending_errors
                   /\ dix' = h.next
                   /\ dpc' = IF h.propagates THEN "idle" ELSE dpc
                   /\ drain' = [drain EXCEPT !.raised = h.propagates]
              ELSE /\ dix' = dix + 1
                   /\ UNCHANGED <<pending_errors, dpc, drain>>
    /\ UNCHANGED <<now, histVars, state_lock, stop_event, thread, is_running,
                   history, reading_callbacks, error_callbacks, pending_readings,
                   loopVars, callerVars, dcur>>

\* mutant of DrainGetError: when the errors are drained the call goes back
\* to the pending readings, until both queues are empty
DrainGetErrorRechecking ==
    /\ dpc = "errors"
    /\ IF pending_errors = <<>>
       THEN /\ IF pending_readings = <<>>
               THEN /\ dpc' = "idle"
                    /\ calls' = <<>>
                    /\ drain' = [NoDrain EXCEPT !.quiet = drain.quiet,
                                                !.returned = TRUE]
               ELSE /\ dpc' = "readings"
                    /\ UNCHANGED <<calls, drain>>
            /\ UNCHANGED <<pending_errors, dcur, dix>>
       ELSE LET got == QueueGet(pending_errors)
            IN  /\ pending_errors' = got.rest
                /\ dcur' = got.item
                /\ dix' = 1
                /\ dpc' = "error_callbacks"
                /\ drain' = [drain EXCEPT
                               !.poppedErrors = Append(@, got.item)]
                /\ UNCHANGED calls
    /\ UNCHANGED <<now, histVars, state_lock, stop_event, thread, is_running,
                   history, reading_callbacks, error_callbacks, pending_readings,
                   loopVars, callerVars>>

\* lines 117-121: get_nowait() on _pending_errors; Empty ends the loop and
\* the call returns
DrainGetError ==
    /\ dpc = "errors"
    /\ IF pending_errors = <<>>
       THEN /\ dpc' = "idle"
            /\ calls' = <<>>
            /\ drain' = [NoDrain EXCEPT !.quiet = drain.quiet, !.returned = TRUE]
            /\ UNCHANGED <<pending_errors, dcur, dix>>
       ELSE LET got == QueueGet(pending_errors)
            IN  /\ pending_errors' = got.rest
                /\ dcur' = got.item
                /\ dix' = 1
                /\ dpc' = "error_callbacks"
                /\ drain' = [drain EXCEPT
                               !.poppedErrors = Append(@, got.item)]
                /\ UNCHANGED calls
    /\ UNCHANGED <<now, histVars, state_lock, stop_event, thread, is_running,
                   history, reading_callbacks, error_callbacks, pending_readings,
                   loopVars, callerVars>>

\* line 123: the for loop over self.error_callbacks is over
DrainErrorCallbacksDone ==
    /\ dpc = "error_callbacks"
    /\ dix > Len(error_callbacks)
    /\ dpc' = "errors"
    /\ dcur' = None
    /\ dix' = 0
    /\ UNCHANGED <<now, histVars, svcVars, loopVars, callerVars, calls, drain>>

\* lines 123-128: the next error callback is called with the error
DrainErrorCallback ==
    /\ dpc = "error_callbacks"
    /\ dix <= Len(error_callbacks)
    /\ LET outcome == CallbackOutcome(error_callbacks[dix])
           inv == Invocation("error", dix, error_callbacks[dix], dcur, outcome,
                             Consumer, "process_pending_callbacks")
           exc == Exc("Exception", "error_callback", Len(calls) + 1)
           h == ErrorCallbackRaised(dix)
       IN  /\ calls' = Append(calls, inv)
           /\ IF outcome = "raise"
              THEN /\ pending_errors' = IF h.queued
                                        THEN Append(pending_errors, exc)
                                        ELSE pending_errors
                   /\ dix' = h.next
                   /\ dpc' = IF h.propagates THEN "idle" ELSE dpc
                   /\ drain' = [drain EXCEPT !.raised = h.propagates]
              ELSE /\ dix' = dix + 1
                   /\ UNCHANGED <<pending_errors, dpc, drain>>
    /\ UNCHANGED <<now, histVars, state_lock, stop_event, thread, is_running,
                   history, reading_callbacks, error_callbacks, pending_readings,
                   loopVars, callerVars, dcur>>

\* ------------------------------------------------------------- SpecDrain
\* service._pending_readings.put([_reading(v)]), as the test does at
\* tests/test_thermal_service.py line 25, outside process_pending_callbacks
PutPendingReadings ==
    /\ dpc = "idle"
    /\ polls < MaxPuts
    /\ pending_readings' =
         Append(pending_readings, <<SensorReading("k1", polls + 1, now)>>)
    /\ polls' = polls + 1
    /\ drain' = [drain EXCEPT !.quiet = FALSE]
    /\ UNCHANGED <<now, histVars, state_lock, stop_event, thread, is_running,
                   history, reading_callbacks, error_callbacks, pending_errors,
                   tpc, tlocal, launched, timeouts, callerVars, dpc, dcur, dix,
                   calls>>

\* service._pending_errors.put(RuntimeError(...))
PutPendingError ==
    /\ dpc = "idle"
    /\ polls < MaxPuts
    /\ pending_errors' =
         Append(pending_errors, Exc("RuntimeError", "source", polls + 1))
    /\ polls' = polls + 1
    /\ drain' = [drain EXCEPT !.quiet = FALSE]
    /\ UNCHANGED <<now, histVars, state_lock, stop_event, thread, is_running,
                   history, reading_callbacks, error_callbacks, pending_readings,
                   tpc, tlocal, launched, timeouts, callerVars, dpc, dcur, dix,
                   calls>>

\* process_pending_callbacks, whole
Drain ==
    \/ DrainCall
    \/ DrainGetReading
    \/ DrainReadingCallbacksDone
    \/ DrainReadingCallback
    \/ DrainGetError
    \/ DrainErrorCallbacksDone
    \/ DrainErrorCallback

InitDrain ==
    /\ now = 0
    /\ InitNoHistory
    /\ InitService

\* one thread registers, fills the queues and calls
\* process_pending_callbacks, as each test of tests/test_thermal_service.py does
NextDrain ==
    \/ PutPendingReadings
    \/ PutPendingError
    \/ dpc = "idle" /\ \E fn \in CallbackFns : RegisterReadingCallback(fn, MaxCallbacks)
    \/ dpc = "idle" /\ \E fn \in CallbackFns : RegisterErrorCallback(fn, MaxCallbacks)
    \/ Drain

SpecDrain == InitDrain /\ [][NextDrain]_vars

\* ------------------------------------------------------------------ Spec
\* the Sensor Source of Spec reports one sensor
SourceShapes == {<<"k1">>}

Init ==
    /\ now = 0
    /\ InitNoHistory
    /\ InitService

Next ==
    \/ start_monitoring(MainCaller, 1)
    \/ \E t \in ThreadIds : LoopCheck(t)
    \/ \E t \in ThreadIds : LoopPoll(t, SourceShapes, {1})
    \/ \E t \in ThreadIds : LoopRecord(t)
    \/ \E t \in ThreadIds : LoopPut(t)
    \/ \E t \in ThreadIds : LoopExcept(t)
    \/ \E t \in ThreadIds : LoopWaitTimeout(t, MaxLoopTimeouts)
    \/ \E fn \in CallbackFns : RegisterReadingCallback(fn, MaxListeners)
    \/ \E fn \in CallbackFns : RegisterErrorCallback(fn, MaxListeners)
    \/ Drain

Spec == Init /\ [][Next]_vars

\* =============================================================== claims

\* C1: for every interleaving of start_monitoring() and stop_monitoring()
\* calls from any number of caller threads, at most one sampling-loop thread
\* is alive at any time.
C1_AtMostOneLoopAlive ==
    Cardinality(AliveLoops) <= 1

\* C2: when a stop_monitoring() call returns, every sampling-loop thread
\* launched by a start_monitoring() call that had returned before this
\* stop_monitoring() call began has terminated.
C2_StopReturnsAfterLoopExit ==
    [][\A c \in LifeCallers :
         (cpc[c] = "join" /\ cpc'[c] = "idle")
            => \A t \in stopPre[c] : tpc'[t] = "dead"]_vars

\* C10: a start_monitoring() call that follows a returned start_monitoring()
\* call with no stop_monitoring() call in between, made while a task is
\* alive, leaves _thread, the stop signal and is_running unchanged, and
\* exactly one background task is alive when it returns.
C10_StartTwiceIsIdempotent ==
    (lastStart.inRow = 2 /\ lastStart.aliveBefore)
        => (~lastStart.changed /\ lastStart.liveAfter = 1)

\* the entries of s whose timestamp is at least `threshold`, in their order
RECURSIVE NotOlderThan(_, _)
NotOlderThan(s, threshold) ==
    IF s = <<>>
    THEN <<>>
    ELSE IF Head(s).timestamp >= threshold
         THEN <<Head(s)>> \o NotOlderThan(Tail(s), threshold)
         ELSE NotOlderThan(Tail(s), threshold)

\* the last n entries of s
LastN(s, n) == SubSeq(s, Len(s) - n + 1, Len(s))

\* C7: for every capacity C >= 0 and every sequence of N add_reading calls
\* on an initially empty TemperatureHistory, len(readings) <= C after each
\* call, len(readings) = min(N, C), and the retained entries are the last
\* min(N, C) inserted, in insertion order.
C7_BoundedFifoHistory ==
    LET kept == Min(Len(inserted), th.max_size)
    IN  /\ Len(th.readings) <= th.max_size
        /\ Len(th.readings) = kept
        /\ th.readings = LastN(inserted, kept)

\* C8: get_readings_for_timeframe(d) returns exactly the entries with
\* timestamp >= now - d, in their stored order, as a new sequence, and leaves
\* the entries unchanged; empty when no entry qualifies, all entries when d
\* exceeds the age of the oldest entry.
C8_WindowIsFilter ==
    window.called =>
        LET d == window.minutes * TicksPerMinute
            entries == window.before
            ages == {window.at - entries[i].timestamp : i \in 1..Len(entries)}
        IN  /\ window.result.items = NotOlderThan(entries, window.at - d)
            /\ window.result.obj # ReadingsObj
            /\ window.after = entries
            /\ (\A a \in ages : a > d) => window.result.items = <<>>
            /\ (\A a \in ages : d > a) => window.result.items = entries

\* C8 witness: a query with d > 0 that keeps some entries and drops others
C8_Witness ==
    /\ window.called
    /\ window.minutes > 0
    /\ window.result.items # <<>>
    /\ Len(window.result.items) < Len(window.before)

\* C9 as stated: with d = 0 the result is empty, whatever the entries
C9_ZeroWindowIsEmpty ==
    (window.called /\ window.minutes = 0) => window.result.items = <<>>

\* C9 amended: with d = 0 the result is the entries whose timestamp is not
\* earlier than now; it is empty when every entry was taken before now
C9_ZeroWindowKeepsNow ==
    (window.called /\ window.minutes = 0) =>
        LET entries == window.before
        IN  /\ \A i \in 1..Len(window.result.items) :
                  window.result.items[i].timestamp >= window.at
            /\ Len(window.result.items) =
                  Cardinality({i \in 1..Len(entries) : entries[i].timestamp >= window.at})
            /\ (\A i \in 1..Len(entries) : entries[i].timestamp < window.at)
                  => window.result.items = <<>>

\* C9 witness: a query with d = 0 on a history whose entries are all older
\* than now
C9_Witness ==
    /\ window.called
    /\ window.minutes = 0
    /\ window.before # <<>>
    /\ \A i \in 1..Len(window.before) : window.before[i].timestamp < window.at
    /\ window.result.items = <<>>

\* ---------------------------------------- process_pending_callbacks claims
\* the call in progress has found both queues empty and returns at its next step
AboutToReturn == dpc = "errors" /\ pending_errors = <<>>

\* the arguments of the invocations of the callback at `pos` of the list
\* `kind`, in invocation order
ArgsTo(kind, pos) ==
    LET its == SelectSeq(calls, LAMBDA c : c.kind = kind /\ c.pos = pos)
    IN  [i \in 1..Len(its) |-> its[i].arg]

\* the invocations that raised
Raising(kind) ==
    {i \in 1..Len(calls) : calls[i].kind = kind /\ calls[i].raised}

\* the errors the call in progress has popped or that are still queued
ErrorsSeen == drain.poppedErrors \o pending_errors

\* the positions in ErrorsSeen of the errors of the given origin
ErrorsFrom(origin) ==
    {i \in 1..Len(ErrorsSeen) : ErrorsSeen[i].origin = origin}

\* C3: reading-callbacks and error-callbacks are invoked only inside
\* process_pending_callbacks(), on the thread of its caller; no sampling-loop
\* thread ever invokes a callback.
C3_CallbacksOnlyOnDrainCaller ==
    /\ \A i \in 1..Len(calls) :
          /\ calls[i].thread = Consumer
          /\ calls[i].thread \notin ThreadIds
          /\ calls[i].within = "process_pending_callbacks"
    /\ calls # <<>> => dpc # "idle"

\* C3 witness: a sampling loop is alive and has pushed during the call in
\* which a reading callback and an error callback have been invoked
C3_Witness ==
    /\ AliveLoops # {}
    /\ ~drain.quiet
    /\ \E i, j \in 1..Len(calls) :
          calls[i].kind = "reading" /\ calls[j].kind = "error"

\* C4: with no concurrent producer, process_pending_callbacks() after N
\* batches were pushed invokes each registered reading-callback exactly N
\* times, once per pushed batch, in FIFO push order; a second immediate call
\* invokes no callbacks.
C4_DrainDeliversEachBatchOnceInOrder ==
    /\ (AboutToReturn /\ drain.quiet) =>
          /\ pending_readings = <<>>
          /\ \A p \in 1..drain.entryNr :
                ArgsTo("reading", p) = drain.entryReadings
    /\ (drain.second /\ drain.quiet) => calls = <<>>

\* C4 witness: a call with no concurrent producer returns after two batches
\* were pushed and a reading callback was registered
C4_Witness ==
    /\ AboutToReturn
    /\ drain.quiet
    /\ Len(drain.entryReadings) >= 2
    /\ drain.entryNr >= 1

\* C5: a reading-callback that raises on a batch prevents neither the
\* remaining reading-callbacks from being invoked with that batch nor any
\* callback from being invoked with the later batches of the call; each
\* failing invocation adds exactly one error to the pending-errors queue; the
\* call does not raise.
C5_RaisingReadingCallbackIsQueued ==
    /\ ~drain.raised
    /\ dpc # "idle" =>
          /\ Cardinality(ErrorsFrom("reading_callback"))
                = Cardinality(Raising("reading"))
          /\ {ErrorsSeen[i].seq : i \in ErrorsFrom("reading_callback")}
                = Raising("reading")
    /\ AboutToReturn =>
          /\ drain.poppedReadings = drain.entryReadings
          /\ \A p \in 1..Len(reading_callbacks) :
                ArgsTo("reading", p) = drain.entryReadings

\* C5 witness: the call returns after two batches went to two reading
\* callbacks of which the first raised each time
C5_Witness ==
    /\ AboutToReturn
    /\ Len(drain.poppedReadings) >= 2
    /\ Len(reading_callbacks) >= 2
    /\ CallbackOutcome(reading_callbacks[1]) = "raise"
    /\ Cardinality(Raising("reading")) >= 2

\* C6: an error-callback that raises is swallowed: every other registered
\* error-callback is still invoked with the same error, every registered
\* error-callback is invoked with every later queued error, no new error is
\* queued for the failure, and the call does not raise.
C6_RaisingErrorCallbackIsSwallowed ==
    /\ ~drain.raised
    /\ ErrorsFrom("error_callback") = {}
    /\ AboutToReturn =>
          /\ SubSeq(drain.poppedErrors, 1, Len(drain.entryErrors))
                = drain.entryErrors
          /\ Len(drain.poppedErrors)
                = Len(drain.entryErrors) + Cardinality(Raising("reading"))
          /\ \A p \in 1..Len(error_callbacks) :
                ArgsTo("error", p) = drain.poppedErrors

\* C6 witness: the call returns after two errors went to two error callbacks
\* of which the first raised each time
C6_Witness ==
    /\ AboutToReturn
    /\ Len(drain.poppedErrors) >= 2
    /\ Len(error_callbacks) >= 2
    /\ CallbackOutcome(error_callbacks[1]) = "raise"
    /\ Cardinality(Raising("error")) >= 2

\* -------------------------------------------------------- restart claims
\* C11: a start_monitoring() call made after a stop_monitoring() call has
\* returned clears the stop signal, sets is_running to true and launches a
\* new sampling-loop thread, distinct from every thread launched before, and
\* none of those is alive any more when it is launched.
C11_RestartIsFresh ==
    [][(stopped /\ ~stopped') =>
          /\ ~stop_event'
          /\ is_running'
          /\ launched' = launched + 1
          /\ thread' = ThreadNames[launched']
          /\ thread' \notin Launched
          /\ \A t \in Launched : tpc[t] = "dead"]_vars

\* ---------------------------------------------------- sampling-loop claims
\* the readings stored in the histories
Stored ==
    UNION {{history[k].readings[i] : i \in 1..Len(history[k].readings)} :
             k \in DOMAIN history}

\* the positions in the pending-errors queue of the errors of Sensor Source
\* call number n
SourceErrors(n) ==
    {i \in 1..Len(pending_errors) :
        pending_errors[i].origin = "source" /\ pending_errors[i].seq = n}

\* Sensor Source call number n failed and its cycle has handled the failure
FailedCycle(n) == SourceErrors(n) # {}

\* Sensor Source call number n has failed and its error is not handled yet
FailingCycle(n) ==
    \E t \in ThreadIds : tpc[t] = "except" /\ tlocal[t].exc.seq = n

\* C12: when the Sensor Source call fails in a cycle, the loop pushes exactly
\* one error onto the pending-errors queue, nothing onto the pending-readings
\* queue, leaves every History unchanged and stays alive: it goes on to the
\* interval wait and to the next cycle, and terminates only after the stop
\* signal is set.
C12_SourceFailureIsQueued ==
    /\ [](\A n \in 1..polls :
            /\ FailedCycle(n) => Cardinality(SourceErrors(n)) = 1
            /\ (FailedCycle(n) \/ FailingCycle(n)) =>
                  /\ \A i \in 1..Len(pending_readings) :
                        \A j \in 1..Len(pending_readings[i]) :
                           pending_readings[i][j].value # n
                  /\ \A r \in Stored : r.value # n)
    /\ [][\A t \in ThreadIds :
            /\ (tpc[t] = "except" /\ tpc'[t] # "except") =>
                  /\ tpc'[t] = "wait"
                  /\ pending_errors' = Append(pending_errors, tlocal[t].exc)
                  /\ UNCHANGED <<pending_readings, history>>
            /\ (tpc[t] = "wait" /\ tpc'[t] # "wait") => tpc'[t] = "check"
            /\ (tpc[t] = "check" /\ tpc'[t] = "exit") => stop_event
            /\ (tpc[t] # "dead" /\ tpc'[t] = "dead") => tpc[t] = "exit"]_vars

\* C12 witness: the one loop launched so far has made a successful cycle
\* after a failed one and is alive
C12_Witness ==
    /\ launched = 1
    /\ AliveLoops # {}
    /\ \E n \in 1..polls :
          /\ FailedCycle(n)
          /\ \E i \in 1..Len(pending_readings) :
                pending_readings[i] # <<>> /\ pending_readings[i][1].value > n

\* ----------------------------------------------------------- history claims
\* the readings of batch `b` that have the key k, in batch order
OfKey(b, k) == SelectSeq(b, LAMBDA r : r.name = k)

\* the readings the dict `hist` holds for the key k
ReadingsOf(hist, k) == IF k \in DOMAIN hist THEN hist[k].readings ELSE <<>>

\* C13: _record_readings(batch) appends each reading of the batch, in batch
\* order, to the History of the reading's key, creating that History on first
\* use, and leaves the History of every key that is not in the batch
\* unchanged; no operation ever removes a key from the history map.
C13_RecordAppendsPerKey ==
    /\ [](recorded.called =>
            \A k \in Keys :
               IF OfKey(recorded.batch, k) = <<>>
               THEN /\ (k \in DOMAIN recorded.after) = (k \in DOMAIN recorded.before)
                    /\ k \in DOMAIN recorded.before =>
                          recorded.after[k] = recorded.before[k]
               ELSE /\ k \in DOMAIN recorded.after
                    /\ recorded.after[k].readings =
                          ReadingsOf(recorded.before, k) \o OfKey(recorded.batch, k))
    /\ [][DOMAIN history \subseteq DOMAIN history']_vars

\* C13 witness: a batch with two readings of one key was recorded into a
\* dict that held a History of that key and one of the other key
C13_Witness ==
    /\ recorded.called
    /\ DOMAIN recorded.before = Keys
    /\ \E k \in Keys :
          /\ Len(OfKey(recorded.batch, k)) = 2
          /\ recorded.before[k].readings # <<>>
          /\ \E o \in Keys \ {k} : recorded.before[o].readings # <<>>

\* the window result of the History of key k in the dict `hist`, for a query
\* of `minutes` made at `clock`; empty for an unknown key
WindowOf(hist, k, minutes, clock) ==
    NotOlderThan(ReadingsOf(hist, k), clock - minutes * TicksPerMinute)

\* C14: get_historical_readings(key, window) and
\* get_all_historical_readings(window) are read-only snapshots: each returns
\* a fresh sequence equal to the matching History's window result, leaves the
\* history map and every History unchanged (an unknown key gives an empty
\* sequence and creates no History), and what is returned stays what it was
\* when the History changes later.
C14_HistoryReadsAreSnapshots ==
    snapshot.called =>
        /\ snapshot.after = snapshot.before
        /\ DOMAIN snapshot.lists =
              IF snapshot.all THEN DOMAIN snapshot.before ELSE {snapshot.sensor_name}
        /\ \A k \in DOMAIN snapshot.lists :
              /\ snapshot.lists[k].items =
                    WindowOf(snapshot.before, k, snapshot.minutes, snapshot.at)
              /\ snapshot.lists[k].obj # ReadingsObj
              /\ k \notin DOMAIN snapshot.before =>
                    /\ snapshot.lists[k].items = <<>>
                    /\ k \notin DOMAIN snapshot.after

\* C14 witness: a key was looked up that a later _record_readings call gave
\* new readings, while the other key had no History
C14_Witness ==
    /\ snapshot.called
    /\ ~snapshot.all
    /\ snapshot.lists[snapshot.sensor_name].items # <<>>
    /\ ReadingsOf(history, snapshot.sensor_name)
          # ReadingsOf(snapshot.before, snapshot.sensor_name)
    /\ DOMAIN snapshot.before # Keys

BatchesOut ==
    {pending_readings[i] : i \in 1..Len(pending_readings)}
    \cup {tlocal[t].readings : t \in {u \in ThreadIds : tpc[u] = "put"}}
    \cup (IF dpc = "reading_callbacks" THEN {dcur} ELSE {})
    \cup {calls[i].arg : i \in {j \in 1..Len(calls) : calls[j].kind = "reading"}}

\* C16: a batch is recorded into the histories before it is pushed: each
\* reading of every batch that is in the pending-readings queue or is being
\* delivered to a callback is in the History of its key.
C16_RecordedBeforePushed ==
    \A b \in BatchesOut :
       \A i \in 1..Len(b) :
          /\ b[i].name \in DOMAIN history
          /\ b[i] \in {history[b[i].name].readings[j] :
                          j \in 1..Len(history[b[i].name].readings)}

\* C16 witness: one batch is being delivered to a callback while a later
\* one waits in the queue
C16_Witness ==
    /\ dpc = "reading_callbacks"
    /\ dix <= Len(reading_callbacks)
    /\ dcur # <<>>
    /\ pending_readings # <<>>
    /\ pending_readings[1] # <<>>

\* C17: cancellation is cooperative: once the stop signal has been set for a
\* sampling loop (a stop_monitoring() call has set it and joins the loop),
\* the loop begins no new Sensor Source call; it completes the cycle it is in
\* and leaves at the wait or at the check that follows.
C17_NoNewCallOnceSignalled ==
    [][\A c \in LifeCallers :
          (cpc[c] = "join" /\ cthread[c] # None) =>
              LET t == cthread[c]
              IN  /\ ~(tpc[t] = "check" /\ tpc'[t] = "poll")
                  /\ ~(tpc[t] = "wait" /\ tpc'[t] = "check" /\ ~stop_event)]_vars

\* no start_monitoring or stop_monitoring call is in progress
Quiescent == \A c \in LifeCallers : cpc[c] = "idle"

\* C18: in every quiescent state is_running is true if and only if _thread
\* references a live sampling-loop thread, and no sampling-loop thread is
\* alive that _thread does not reference.
C18_RunningIffLiveThread ==
    Quiescent =>
        /\ is_running <=> (thread # None /\ thread \in AliveLoops)
        /\ AliveLoops \subseteq {thread}

\* ------------------------------------------------ delivery under interleaving
\* the positions of the callbacks of list `kind` invoked so far, by the call
\* in progress, with the item `x`, in invocation order
PositionsGiven(kind, x) ==
    LET its == SelectSeq(calls, LAMBDA c : c.kind = kind /\ c.arg = x)
    IN  [i \in 1..Len(its) |-> its[i].pos]

\* the batches the call in progress has popped, then those still queued
BatchesInOrder == drain.poppedReadings \o pending_readings

\* C19: for every interleaving of pushes by the sampling loop with
\* process_pending_callbacks() calls no queued event is lost or duplicated:
\* the queues change only by a push at the tail or by a pop of the oldest
\* item, the popped item is the one delivered, once, to each callback
\* registered at delivery time, and batches are popped in push order.
C19_NoEventLostOrDuplicated ==
    /\ [][/\ \/ pending_readings' = pending_readings
             \/ \E t \in ThreadIds :
                   /\ tpc[t] = "put"
                   /\ pending_readings' = Append(pending_readings, tlocal[t].readings)
             \/ /\ dpc = "readings" /\ dpc' = "reading_callbacks"
                /\ pending_readings # <<>>
                /\ pending_readings' = Tail(pending_readings)
                /\ dcur' = Head(pending_readings)
          /\ \/ pending_errors' = pending_errors
             \/ \E t \in ThreadIds :
                   /\ tpc[t] = "except"
                   /\ pending_errors' = Append(pending_errors, tlocal[t].exc)
             \/ /\ dpc = "reading_callbacks"
                /\ Len(calls') = Len(calls) + 1
                /\ calls'[Len(calls')].raised
                /\ \E e \in {pending_errors'[Len(pending_errors')]} :
                      /\ e.origin = "reading_callback"
                      /\ pending_errors' = Append(pending_errors, e)
             \/ /\ dpc = "errors" /\ dpc' = "error_callbacks"
                /\ pending_errors # <<>>
                /\ pending_errors' = Tail(pending_errors)
                /\ dcur' = Head(pending_errors)]_vars
    /\ [](/\ dpc = "reading_callbacks" =>
                PositionsGiven("reading", dcur) = [i \in 1..(dix - 1) |-> i]
          /\ dpc = "error_callbacks" =>
                PositionsGiven("error", dcur) = [i \in 1..(dix - 1) |-> i]
          /\ \A i, j \in 1..Len(BatchesInOrder) :
                (i < j /\ BatchesInOrder[i] # <<>> /\ BatchesInOrder[j] # <<>>)
                   => BatchesInOrder[i][1].value < BatchesInOrder[j][1].value)

\* C19 witness: the call in progress delivers a batch that the sampling
\* loop pushed after the call had begun, having delivered an earlier one
C19_Witness ==
    /\ dpc = "reading_callbacks"
    /\ dix > Len(reading_callbacks)
    /\ reading_callbacks # <<>>
    /\ ~drain.quiet
    /\ Len(drain.poppedReadings) >= 2
    /\ Len(drain.entryReadings) <= 1

\* the call in progress is in its second loop, over the pending errors
InErrorPhase == dpc \in {"errors", "error_callbacks"}

\* C20: within one process_pending_callbacks() call every reading-callback
\* invocation precedes every error-callback invocation; the errors raised by
\* reading-callbacks during the call are delivered to the error-callbacks in
\* that call, after the errors that were queued before them; once the call
\* is in its error phase it pops no more batches, so a batch pushed then
\* waits for the next call.
C20_ReadingsThenErrors ==
    /\ [](/\ \A i, j \in 1..Len(calls) :
                (calls[i].kind = "error" /\ calls[j].kind = "reading") => j < i
          /\ dpc # "idle" =>
                /\ Len(ErrorsSeen) >= Len(drain.entryErrors)
                /\ SubSeq(ErrorsSeen, 1, Len(drain.entryErrors)) = drain.entryErrors
                /\ \A i \in ErrorsFrom("reading_callback") :
                      /\ i > Len(drain.entryErrors)
                      /\ \A j \in ErrorsFrom("reading_callback") :
                            i < j => ErrorsSeen[i].seq < ErrorsSeen[j].seq
          /\ AboutToReturn =>
                /\ {drain.poppedErrors[i].seq :
                       i \in {j \in 1..Len(drain.poppedErrors) :
                                 drain.poppedErrors[j].origin = "reading_callback"}}
                      = Raising("reading")
                /\ \A p \in 1..drain.entryNe :
                      ArgsTo("error", p) = drain.poppedErrors)
    /\ [][InErrorPhase =>
             /\ dpc' \in {"errors", "error_callbacks", "idle"}
             /\ dpc' # "idle" => drain'.poppedReadings = drain.poppedReadings
             /\ Len(pending_readings') >= Len(pending_readings)
             /\ \A i \in (Len(calls) + 1)..Len(calls') : calls'[i].kind = "error"]_vars

\* C20 witness: the call returns having delivered to an error callback the
\* error a reading callback raised in it, while a batch that the sampling
\* loop pushed during the error phase waits in the queue
C20_Witness ==
    /\ AboutToReturn
    /\ Raising("reading") # {}
    /\ drain.entryNe >= 1
    /\ \E i \in 1..Len(calls) :
          calls[i].kind = "error" /\ calls[i].arg.origin = "reading_callback"
    /\ pending_readings # <<>>
====
